---------------------------- MODULE Spec2Model ----------------------------
(***************************************************************************)
(* Model of the PDF -> EPUB conversion orchestrator                        *)
(* (app/services/conversion_orchestrator.py): the in-memory job store, the *)
(* caller operations start / cancel / retry / status / download, and the   *)
(* background pipeline run (_run_pipeline) with its checkpoints, its       *)
(* cancellation checks and its failure handler.                            *)
(*                                                                         *)
(* Scheduling.  Runs are asyncio tasks on one event loop: a task keeps the *)
(* loop until it awaits something that suspends.  The store's and the      *)
(* tracker's asyncio.Lock are free whenever they are acquired (no critical *)
(* section contains an await), so store calls do not suspend; a run        *)
(* suspends only at the enrichment collaborator's awaits (lines 274-275)   *)
(* and at the backoff sleep (line 376).  The variable cur names the task   *)
(* that holds the loop (0: none); caller operations contain no suspending  *)
(* await and run as one step while cur = 0.                                *)
(*                                                                         *)
(* The library functions the pipeline calls (the page classifier, the text  *)
(* chunker, the EPUB validator) are operators, each applied by the action  *)
(* of its own specification to the arguments held in the variable call.    *)
(* The transport (AsyncQueueService and the Celery task start_conversion)  *)
(* has the specification SpecTransport: the service's store and the task   *)
(* results are in the variable transport, the worker's orchestrator is the *)
(* one modelled by jobs, runs and cur.                                     *)
(*                                                                         *)
(* Left out: updated_at / created_at (wall clock), filename and file_size  *)
(* (never read by the orchestrator), the ProgressTracker's own list (a     *)
(* copy of the step log that nothing reads back).                          *)
(***************************************************************************)
EXTENDS Integers, Sequences, FiniteSets, TLC

\* ------------------------------------------------------------------ bounds
\* Most pipeline runs (tasks) created for the job.
MaxRuns == 2
\* Most chunks the extractor returns for one document.
MaxChunks == 2

\* ------------------------------------------------------------ byte values
\* A byte value: kind "none" is Python's None, "empty" is b"", "pdf" is a
\* readable PDF whose classification is type and whose text splits into
\* chunks chunks, "epub" is the encoder's output of run number run.
Bytes(kind, type, chunks, run) ==
    [kind |-> kind, type |-> type, chunks |-> chunks, run |-> run]

NoneBytes == Bytes("none", "", 0, 0)

EmptyBytes == Bytes("empty", "", 0, 0)

PDFType == {"TEXT_BASED", "SCANNED", "MIXED"}

PdfDocs == {Bytes("pdf", t, n, 0) : t \in PDFType, n \in 0..MaxChunks}

\* What a caller may submit as pdf_bytes: a readable PDF or an empty file.
PdfInputs == PdfDocs \cup {EmptyBytes}

EpubOf(r) == Bytes("epub", "", 0, r)

\* Python truthiness of an Optional[bytes]: None and b"" are falsy.
Truthy(b) == b.kind \notin {"none", "empty"}

\* `x or b""`
OrEmpty(b) == IF Truthy(b) THEN b ELSE EmptyBytes

\* --------------------------------------------------------------- job state
JobState == {"PENDING", "PROCESSING", "COMPLETED", "FAILED", "CANCELLED"}

ConversionIds == {"c1"}

NoTask == 0

StepName(name) == <<name, 0>>

ChunkStepName(idx) == <<"extract_chunk", idx>>

JobStep(name, progress) == [name |-> name, progress |-> progress]

ConversionJob(id, ocr) ==
    [conversion_id |-> id,
     ocr_enabled   |-> ocr,
     state         |-> "PENDING",
     progress      |-> 0,
     message       |-> "",
     current_step  |-> StepName("queued"),
     steps         |-> << >>,
     result_bytes  |-> NoneBytes,
     result_path   |-> "None",
     error_message |-> "None",
     attempts      |-> 0,
     celery_task_id |-> "None",
     cancel_event  |-> FALSE]

VARIABLES
    jobs,    \* ConversionJobStore._jobs: conversion id -> job
    runs,    \* the _run_pipeline tasks created so far, in creation order
    cur,     \* the run that holds the event loop, or NoTask
    reply,   \* what the last caller operation returned or raised
    forced,  \* history: a retry was accepted only because force was set
    outside, \* history: the job fields the last step wrote with the store's
             \* lock released
    call,    \* the library function under analysis: its arguments and result
    transport \* AsyncQueueService's store, the Celery tasks and the worker's
             \* event loop

vars == <<jobs, runs, cur, reply, forced, outside, call, transport>>

Reply(op, ok, data) == [op |-> op, ok |-> ok, data |-> data]

\* One _run_pipeline task: its position, its pdf_bytes argument, its locals
\* and the progress value it wrote last (0 before its first checkpoint).
NewRun(id, pdf) ==
    [conversion_id |-> id,
     pc        |-> "start",
     pdf_bytes |-> pdf,
     pdf_type  |-> "",
     nchunks   |-> 0,
     idx       |-> 0,
     epub      |-> NoneBytes,
     valid     |-> TRUE,
     err       |-> "None",
     backoff   |-> 0,
     last      |-> 0]

\* No library call is recorded.
NoCall == [fn |-> "none"]

\* The orchestrator after construction: an empty store, no task.
OrchestratorInit ==
    /\ jobs = << >>
    /\ runs = << >>
    /\ cur = NoTask
    /\ reply = Reply("none", TRUE, NoneBytes)
    /\ forced = FALSE
    /\ outside = {}

\* AsyncQueueService after construction: an empty store (line 29), no Celery
\* task, no event loop open in the worker.
TransportInit == transport = [jobs |-> << >>, tasks |-> << >>, loop |-> FALSE]

Init ==
    /\ OrchestratorInit
    /\ TransportInit
    /\ call = NoCall


\* ------------------------------------------------------- ConversionJobStore
Stored(id) == id \in DOMAIN jobs

\* ConversionJobStore.update for one stored job: j is the job with the
\* keyword fields already applied.
StoreUpdate(id, j) == [jobs EXCEPT ![id] = j]

\* Mutant of CancelJob: the event is toggled instead of set.
CancelJob_Toggle(j) ==
    [j EXCEPT !.cancel_event = ~@,
              !.state = "CANCELLED",
              !.message = "cancelled"]

\* ConversionJobStore.cancel: job.cancel() sets the event, then update() writes
\* the state and the message.
CancelJob(j) ==
    [j EXCEPT !.cancel_event = TRUE,
              !.state = "CANCELLED",
              !.message = "cancelled"]

\* _run_pipeline.set_step: append to the step log, then update current_step,
\* progress, state and message.
SetStep(j, step, progress, message) ==
    [j EXCEPT !.steps = Append(@, JobStep(step, progress)),
              !.current_step = step,
              !.progress = progress,
              !.state = "PROCESSING",
              !.message = message]

\* Mutant of SetResultBytes: the update is lost.
SetResultBytes_Lost(j, data) == j

\* ConversionJobStore.set_result.
SetResultBytes(j, data) == [j EXCEPT !.result_bytes = data]

\* Mutant of FailJob: the state of the retry branch is written.
FailJob_Pending(j, err) ==
    [j EXCEPT !.state = "PENDING",
              !.message = err,
              !.error_message = err,
              !.current_step = StepName("failed")]

\* The failure handler's last write: the job is FAILED with this error.
FailJob(j, err) ==
    [j EXCEPT !.state = "FAILED",
              !.message = err,
              !.error_message = err,
              !.current_step = StepName("failed")]

\* The failure handler's write before an automatic retry.
AutoRetryJob(j) ==
    [j EXCEPT !.state = "PENDING", !.message = "auto retry pending"]

\* Mutant of ChunkProgress: the chunks are counted down.
ChunkProgress_Down(idx, n) == 50 - ((30 * idx) \div (IF n > 1 THEN n ELSE 1))

\* Progress reported for chunk idx of n: 20 + int(30 * idx / max(1, n)).
ChunkProgress(idx, n) == 20 + ((30 * idx) \div (IF n > 1 THEN n ELSE 1))

\* Mutant of RetryAllowed: COMPLETED is accepted as well.
RetryAllowed_Completed(state, force) ==
    state \in {"FAILED", "CANCELLED", "COMPLETED"} \/ force

\* Mutant of RetryAllowed: every state but PROCESSING is accepted.
RetryAllowed_NotProcessing(state, force) == state # "PROCESSING" \/ force

\* The guard of retry: the state test and the force flag.
RetryAllowed(state, force) == state \in {"FAILED", "CANCELLED"} \/ force

\* Mutant of DownloadReady: the state is not tested.
DownloadReady_AnyState(j) == Truthy(j.result_bytes)

\* The guard of download.
DownloadReady(j) == j.state = "COMPLETED" /\ Truthy(j.result_bytes)

\* Hard-coded in the failure handler.
max_retries == 1

\* backoff = min(5 * attempts, 30)
Backoff(attempts) == IF 5 * attempts < 30 THEN 5 * attempts ELSE 30

\* ------------------------------------------------------- caller operations
\* ConversionOrchestrator.start: create the job, schedule one run.  The
\* conversion id is caller-supplied and unique, so it is not stored yet.
Start(id, ocr, pdf) ==
    /\ cur = NoTask
    /\ ~Stored(id)
    /\ Len(runs) < MaxRuns
    /\ jobs' = (id :> ConversionJob(id, ocr)) @@ jobs
    /\ runs' = Append(runs, NewRun(id, pdf))
    /\ reply' = Reply("start", TRUE, NoneBytes)
    /\ outside' = {}
    /\ UNCHANGED <<cur, forced, call, transport>>

\* ConversionOrchestrator.cancel -> ConversionJobStore.cancel; KeyError for
\* an unknown id.
Cancel(id) ==
    /\ cur = NoTask
    /\ IF Stored(id)
       THEN /\ jobs' = StoreUpdate(id, CancelJob(jobs[id]))
            /\ reply' = Reply("cancel", TRUE, NoneBytes)
            /\ outside' = {"cancel_event"}
       ELSE /\ reply' = Reply("cancel", FALSE, NoneBytes)
            /\ outside' = {}
            /\ UNCHANGED jobs
    /\ UNCHANGED <<runs, cur, forced, call, transport>>

\* ConversionOrchestrator.retry: raise unless the state allows it (or force);
\* otherwise attempts += 1, state PENDING, progress 0, and a new run whose
\* pdf_bytes argument is `job.result_bytes or b""`.
Retry(id, force) ==
    /\ cur = NoTask
    /\ IF Stored(id) /\ RetryAllowed(jobs[id].state, force)
       THEN /\ Len(runs) < MaxRuns
            /\ jobs' = StoreUpdate(id,
                         [jobs[id] EXCEPT !.attempts = @ + 1,
                                          !.state = "PENDING",
                                          !.message = "retry pending",
                                          !.progress = 0])
            /\ runs' = Append(runs, NewRun(id, OrEmpty(jobs[id].result_bytes)))
            /\ reply' = Reply("retry", TRUE, NoneBytes)
            /\ forced' = (forced \/ (force /\ jobs[id].state \notin {"FAILED", "CANCELLED"}))
            /\ outside' = {"attempts"}
       ELSE /\ reply' = Reply("retry", FALSE, NoneBytes)
            /\ outside' = {}
            /\ UNCHANGED <<jobs, runs, forced>>
    /\ UNCHANGED <<cur, call, transport>>

\* ConversionOrchestrator.download: the result bytes, or an error (KeyError
\* for an unknown id, HTTP 404 when the result is not ready).
Download(id) ==
    /\ cur = NoTask
    /\ reply' = IF Stored(id) /\ DownloadReady(jobs[id])
                THEN Reply("download", TRUE, jobs[id].result_bytes)
                ELSE Reply("download", FALSE, NoneBytes)
    /\ outside' = {}
    /\ UNCHANGED <<jobs, runs, cur, forced, call, transport>>

\* ------------------------------------------------- external collaborators
\* PDFAnalyzer.analyze_pdf: the type of a readable PDF; ValueError ("raise")
\* for an empty file.  Bytes that are not a PDF (the encoder's output handed
\* back as pdf_bytes by retry) either fail to open or are opened by content
\* and classified: both are outcomes.
AnalyzeOutcomes(pdf) ==
    CASE pdf.kind = "pdf"  -> {pdf.type}
      [] pdf.kind = "epub" -> PDFType \cup {"raise"}
      [] OTHER             -> {"raise"}

\* PDFExtractor.extract_text_in_chunks: how many chunks it returns.
ChunkCounts(pdf) ==
    CASE pdf.kind = "pdf"  -> {pdf.chunks}
      [] OTHER             -> 0..MaxChunks

\* -------------------------------------------------------------- _run_pipeline
RunIds == 1..Len(runs)

JobOf(r) == jobs[runs[r].conversion_id]

IsCancelled(r) == JobOf(r).cancel_event

\* A task that has returned: its frame (arguments and locals) is gone.
Returned(id) == [NewRun(id, NoneBytes) EXCEPT !.pc = "done"]

\* The run moves to pc with its locals changed to run.  Of a returned run
\* the validator's verdict and the kind of its pdf_bytes argument are kept,
\* as history.
Goto(r, run, pc) ==
    runs' = [runs EXCEPT ![r] = IF pc = "done"
                                THEN [Returned(run.conversion_id)
                                        EXCEPT !.valid = run.valid,
                                               !.pdf_bytes.kind = run.pdf_bytes.kind]
                                ELSE [run EXCEPT !.pc = pc]]

\* The run calls set_step: the step log is appended to on the job returned
\* by store.get (line 192, lock released), the other fields go through
\* store.update.
Checkpoint(r, step, progress, message) ==
    /\ jobs' = StoreUpdate(runs[r].conversion_id,
                           SetStep(JobOf(r), step, progress, message))
    /\ outside' = {"steps"}

Wrote(run, progress) == [run EXCEPT !.last = progress]

\* Mutant of RunBegin: the run starts without counting the attempt.
RunBegin_NotCounted(r) ==
    /\ cur = NoTask
    /\ runs[r].pc = "start"
    /\ jobs' = StoreUpdate(runs[r].conversion_id,
                 [JobOf(r) EXCEPT !.message = "attempt"])
    /\ Goto(r, runs[r], "analyze")
    /\ cur' = r
    /\ outside' = {"attempts"}
    /\ UNCHANGED <<reply, forced, call, transport>>

\* Lines 205-207: the task is scheduled for the first time; attempts += 1.
RunBegin(r) ==
    /\ cur = NoTask
    /\ runs[r].pc = "start"
    /\ jobs' = StoreUpdate(runs[r].conversion_id,
                 [JobOf(r) EXCEPT !.attempts = @ + 1, !.message = "attempt"])
    /\ Goto(r, runs[r], "analyze")
    /\ cur' = r
    /\ outside' = {"attempts"}
    /\ UNCHANGED <<reply, forced, call, transport>>

\* Lines 209-211: checkpoint analyze (5), then the classifier.
Analyze(r) ==
    /\ cur = r
    /\ runs[r].pc = "analyze"
    /\ Checkpoint(r, StepName("analyze"), 5, "analyzing")
    /\ \E o \in AnalyzeOutcomes(runs[r].pdf_bytes) :
         IF o = "raise"
         THEN Goto(r, [Wrote(runs[r], 5) EXCEPT !.err = "analysis"], "except")
         ELSE Goto(r, [Wrote(runs[r], 5) EXCEPT !.pdf_type = o], "check1")
    /\ UNCHANGED <<cur, reply, forced, call, transport>>

\* A cancellation check (lines 214, 259, 279): return if the event is set.
CheckCancel(r, at, next) ==
    /\ cur = r
    /\ runs[r].pc = at
    /\ IF IsCancelled(r)
       THEN Goto(r, runs[r], "done") /\ cur' = NoTask
       ELSE Goto(r, runs[r], next) /\ UNCHANGED cur
    /\ outside' = {}
    /\ UNCHANGED <<jobs, reply, forced, call, transport>>

\* Lines 218-256: extract_text_in_chunks (chunked raises when not ok); more
\* than one chunk starts the chunk loop; otherwise a TEXT_BASED or MIXED
\* document is extracted in one call.  When the inner try raised, line 253
\* calls extract_text_from_pdf again, and its failure (text not ok) reaches
\* the failure handler.
Extract(r) ==
    /\ cur = r
    /\ runs[r].pc = "extract"
    /\ \E n \in ChunkCounts(runs[r].pdf_bytes), chunked \in BOOLEAN, text \in BOOLEAN :
         IF chunked /\ n > 1
         THEN Goto(r, [runs[r] EXCEPT !.nchunks = n, !.idx = 1], "chunk")
         ELSE IF text \/ (chunked /\ runs[r].pdf_type = "SCANNED")
              THEN Goto(r, runs[r], "check2")
              ELSE Goto(r, [runs[r] EXCEPT !.err = "extraction"], "except")
    /\ outside' = {}
    /\ UNCHANGED <<jobs, cur, reply, forced, call, transport>>

\* Lines 225-236: one turn of the chunk loop: cancellation check, then the
\* checkpoint extract_chunk_<idx>.
Chunk(r) ==
    /\ cur = r
    /\ runs[r].pc = "chunk"
    /\ IF IsCancelled(r)
       THEN /\ Goto(r, runs[r], "done")
            /\ cur' = NoTask
            /\ outside' = {}
            /\ UNCHANGED jobs
       ELSE LET p == ChunkProgress(runs[r].idx, runs[r].nchunks)
                run == [Wrote(runs[r], p) EXCEPT !.idx = @ + 1]
            IN /\ Checkpoint(r, ChunkStepName(runs[r].idx), p, "extracting")
               /\ Goto(r, run, IF runs[r].idx = runs[r].nchunks
                               THEN "check2" ELSE "chunk")
               /\ UNCHANGED cur
    /\ UNCHANGED <<reply, forced, call, transport>>

\* Lines 263-275: a scanned document with OCR enabled reaches checkpoint
\* ocr_llm (55) and suspends on the enrichment collaborator.
OcrGate(r) ==
    /\ cur = r
    /\ runs[r].pc = "ocr_gate"
    /\ IF runs[r].pdf_type = "SCANNED" /\ JobOf(r).ocr_enabled
       THEN /\ Checkpoint(r, StepName("ocr_llm"), 55, "ocr")
            /\ Goto(r, Wrote(runs[r], 55), "ocr_create")
            /\ cur' = NoTask
       ELSE /\ Goto(r, runs[r], "check3")
            /\ outside' = {}
            /\ UNCHANGED <<jobs, cur>>
    /\ UNCHANGED <<reply, forced, call, transport>>

\* Lines 283-324: checkpoint epub (80), build the chapters, call the encoder.
Epub(r) ==
    /\ cur = r
    /\ runs[r].pc = "epub"
    /\ Checkpoint(r, StepName("epub"), 80, "generating")
    /\ \E ok \in BOOLEAN :
         IF ok
         THEN Goto(r, [Wrote(runs[r], 80) EXCEPT !.epub = EpubOf(r)], "validate")
         ELSE Goto(r, [Wrote(runs[r], 80) EXCEPT !.err = "encoding"], "except")
    /\ UNCHANGED <<cur, reply, forced, call, transport>>

\* Mutant of AfterValidation: an invalid result raises.
AfterValidation_Strict(valid) == IF valid THEN "set_result" ELSE "except"

\* Where the run goes after line 328: the verdict is bound to the local
\* _validation and never read, so the next statement is set_result.
AfterValidation(valid) == "set_result"

\* Lines 327-328: checkpoint validate (95), then the validator, which
\* returns a verdict and does not raise.
Validate(r) ==
    /\ cur = r
    /\ runs[r].pc = "validate"
    /\ Checkpoint(r, StepName("validate"), 95, "validating")
    /\ \E v \in BOOLEAN :
         Goto(r, [Wrote(runs[r], 95) EXCEPT !.valid = v], AfterValidation(v))
    /\ UNCHANGED <<cur, reply, forced, call, transport>>

\* Line 331: store.set_result.
SetResult(r) ==
    /\ cur = r
    /\ runs[r].pc = "set_result"
    /\ jobs' = StoreUpdate(runs[r].conversion_id,
                 SetResultBytes(JobOf(r), runs[r].epub))
    /\ Goto(r, runs[r], "save")
    /\ outside' = {}
    /\ UNCHANGED <<cur, reply, forced, call, transport>>

\* Lines 333-347: write the file; result_path is set unless writing failed.
SaveToDisk(r) ==
    /\ cur = r
    /\ runs[r].pc = "save"
    /\ \E ok \in BOOLEAN :
         jobs' = IF ok
                 THEN StoreUpdate(runs[r].conversion_id,
                        [JobOf(r) EXCEPT !.result_path = "results"])
                 ELSE jobs
    /\ Goto(r, runs[r], "complete")
    /\ outside' = {}
    /\ UNCHANGED <<cur, reply, forced, call, transport>>

\* Lines 348-354: the completion write.
Complete(r) ==
    /\ cur = r
    /\ runs[r].pc = "complete"
    /\ jobs' = StoreUpdate(runs[r].conversion_id,
                 [JobOf(r) EXCEPT !.state = "COMPLETED",
                                  !.progress = 100,
                                  !.message = "completed",
                                  !.current_step = StepName("completed")])
    /\ Goto(r, Wrote(runs[r], 100), "done")
    /\ cur' = NoTask
    /\ outside' = {}
    /\ UNCHANGED <<reply, forced, call, transport>>

\* Lines 356-387: the failure handler.  error_message is set; with attempts
\* below max_retries the state goes back to PENDING and the run sleeps for
\* the backoff, otherwise the job is FAILED.
Except(r) ==
    /\ cur = r
    /\ runs[r].pc = "except"
    /\ LET j == [JobOf(r) EXCEPT !.error_message = runs[r].err]
       IN IF j.attempts < max_retries
          THEN /\ jobs' = StoreUpdate(runs[r].conversion_id, AutoRetryJob(j))
               /\ Goto(r, [runs[r] EXCEPT !.backoff = Backoff(j.attempts)],
                       "backoff")
          ELSE /\ jobs' = StoreUpdate(runs[r].conversion_id, FailJob(j, runs[r].err))
               /\ Goto(r, runs[r], "done")
    /\ cur' = NoTask
    /\ outside' = {"error_message"}
    /\ UNCHANGED <<reply, forced, call, transport>>

\* A suspended run is resumed: the enrichment collaborator's two awaits
\* (lines 274, 275) return or raise; the backoff sleep (line 376) ends and
\* the run creates the task of a new run on the same pdf_bytes (line 377).
Resume(r) ==
    /\ cur = NoTask
    /\ runs[r].pc \in {"ocr_create", "ocr_process", "backoff"}
    /\ IF runs[r].pc = "backoff"
       THEN /\ Len(runs) < MaxRuns
            /\ runs' = Append([runs EXCEPT ![r] = Returned(runs[r].conversion_id)],
                              NewRun(runs[r].conversion_id, runs[r].pdf_bytes))
            /\ UNCHANGED cur
       ELSE \E ok \in BOOLEAN :
              IF ~ok
              THEN Goto(r, [runs[r] EXCEPT !.err = "enrichment"], "except")
                   /\ cur' = r
              ELSE IF runs[r].pc = "ocr_create"
                   THEN Goto(r, runs[r], "ocr_process") /\ UNCHANGED cur
                   ELSE Goto(r, runs[r], "check3") /\ cur' = r
    /\ outside' = {}
    /\ UNCHANGED <<jobs, reply, forced, call, transport>>

Next ==
    \/ \E id \in ConversionIds, ocr \in BOOLEAN, pdf \in PdfInputs : Start(id, ocr, pdf)
    \/ \E id \in ConversionIds : Cancel(id)
    \/ \E id \in ConversionIds, force \in BOOLEAN : Retry(id, force)
    \/ \E id \in ConversionIds : Download(id)
    \/ \E r \in RunIds : RunBegin(r)
    \/ \E r \in RunIds : Analyze(r)
    \/ \E r \in RunIds : CheckCancel(r, "check1", "extract")
    \/ \E r \in RunIds : Extract(r)
    \/ \E r \in RunIds : Chunk(r)
    \/ \E r \in RunIds : CheckCancel(r, "check2", "ocr_gate")
    \/ \E r \in RunIds : OcrGate(r)
    \/ \E r \in RunIds : Resume(r)
    \/ \E r \in RunIds : CheckCancel(r, "check3", "epub")
    \/ \E r \in RunIds : Epub(r)
    \/ \E r \in RunIds : Validate(r)
    \/ \E r \in RunIds : SetResult(r)
    \/ \E r \in RunIds : SaveToDisk(r)
    \/ \E r \in RunIds : Complete(r)
    \/ \E r \in RunIds : Except(r)

Spec == Init /\ [][Next]_vars

\* ------------------------------------- AsyncQueueService and the Celery task
\* pdf_bytes.hex() (async_queue_service.py line 97): the bytes as a string of
\* hexadecimal digits.
Hex(b) == [hex |-> b]

\* _decode_pdf_bytes: bytes.fromhex for a string, anything else as it is.
decode_pdf_bytes(x) == IF "hex" \in DOMAIN x THEN x.hex ELSE x

\* What the Celery task returns: the dict {"conversion_id": ..., "state": ...}.
TaskResult == Bytes("dict", "", 0, 0)

\* AsyncQueueService.store holds a job for the id.
TransportStored(id) == id \in DOMAIN transport.jobs

\* AsyncQueueService.start_conversion: store.create of a new job (it replaces
\* a job stored under the id), then send_task with task_id = conversion_id
\* and the hex string; the task id is stored on the job.  When send_task
\* raises (sent is false) the job is FAILED and the error is raised again.
Enqueue(id, ocr, pdf, sent) ==
    IF sent
    THEN [transport EXCEPT
            !.jobs = (id :> [ConversionJob(id, ocr) EXCEPT !.celery_task_id = id]) @@ @,
            !.tasks = (id :> [state |-> "PENDING", ocr_enabled |-> ocr,
                              pdf_bytes |-> Hex(pdf), result |-> NoneBytes]) @@ @]
    ELSE [transport EXCEPT
            !.jobs = (id :> [ConversionJob(id, ocr) EXCEPT
                               !.state = "FAILED",
                               !.message = "registration failed",
                               !.error_message = "registration"]) @@ @]

\* AsyncQueueService.start_conversion called for a new conversion id.
StartConversion(id, ocr, pdf) ==
    /\ ~TransportStored(id)
    /\ \E sent \in BOOLEAN :
         /\ transport' = Enqueue(id, ocr, pdf, sent)
         /\ reply' = Reply("start_conversion", sent, NoneBytes)
    /\ outside' = {}
    /\ UNCHANGED <<jobs, runs, cur, forced, call>>

\* The worker takes a queued task: conversion_tasks.start_conversion decodes
\* the hex string and calls orch.start in a new event loop (async_to_sync),
\* which stores a new job in the worker's orchestrator (replacing a job of
\* that id) and creates the task of one pipeline run.
TaskStartConversion(id) ==
    /\ id \in DOMAIN transport.tasks
    /\ transport.tasks[id].state = "PENDING"
    /\ ~transport.loop
    /\ cur = NoTask
    /\ Len(runs) < MaxRuns
    /\ jobs' = (id :> ConversionJob(id, transport.tasks[id].ocr_enabled)) @@ jobs
    /\ runs' = Append(runs, NewRun(id, decode_pdf_bytes(transport.tasks[id].pdf_bytes)))
    /\ transport' = [transport EXCEPT !.tasks[id].state = "STARTED", !.loop = TRUE]
    /\ outside' = {}
    /\ UNCHANGED <<cur, reply, forced, call>>

\* run_until_complete(orch.start(...)) returns once start has returned: the
\* pipeline run got the loop's last iteration, in which it ran up to its
\* first suspension or to its end; the loop is closed, which destroys a run
\* that is still suspended; the Celery task returns its dict (SUCCESS).
TaskReturn(id) ==
    /\ id \in DOMAIN transport.tasks
    /\ transport.tasks[id].state = "STARTED"
    /\ cur = NoTask
    /\ \A r \in RunIds : runs[r].pc # "start"
    /\ runs' = [r \in RunIds |-> IF runs[r].pc = "done" THEN runs[r]
                                 ELSE Returned(runs[r].conversion_id)]
    /\ transport' = [transport EXCEPT !.tasks[id].state = "SUCCESS",
                                      !.tasks[id].result = TaskResult,
                                      !.loop = FALSE]
    /\ outside' = {}
    /\ UNCHANGED <<jobs, cur, reply, forced, call>>

\* get_status lines 146-177: what the state of the Celery result writes on
\* the job.  The task never reports PROGRESS; a queued or running task is
\* PENDING to AsyncResult.
StatusUpdate(job, state, result) ==
    CASE state = "SUCCESS" -> [job EXCEPT !.state = "COMPLETED",
                                          !.progress = 100,
                                          !.message = "completed",
                                          !.result_bytes = result]
      [] state = "FAILURE" -> [job EXCEPT !.state = "FAILED",
                                          !.message = "task failed",
                                          !.error_message = "task"]
      [] state = "REVOKED" -> [job EXCEPT !.state = "CANCELLED",
                                          !.message = "cancelled"]
      [] OTHER -> job

\* AsyncQueueService.get_status; KeyError for an unknown id.
GetStatus(id) ==
    /\ IF TransportStored(id)
       THEN LET job == transport.jobs[id]
            IN /\ transport' =
                    IF job.celery_task_id = "None" THEN transport
                    ELSE [transport EXCEPT !.jobs[id] =
                            StatusUpdate(job, transport.tasks[job.celery_task_id].state,
                                         transport.tasks[job.celery_task_id].result)]
               /\ reply' = Reply("get_status", TRUE, NoneBytes)
       ELSE /\ reply' = Reply("get_status", FALSE, NoneBytes)
            /\ UNCHANGED transport
    /\ outside' = {}
    /\ UNCHANGED <<jobs, runs, cur, forced, call>>

\* AsyncQueueService.cancel_conversion: revoke discards a task still in the
\* queue; store.cancel marks the job.  False for an unknown id.  The call
\* is taken between two tasks of the worker.
CancelConversion(id) ==
    /\ ~transport.loop
    /\ IF TransportStored(id)
       THEN LET job == transport.jobs[id]
                revoked == /\ job.celery_task_id # "None"
                           /\ transport.tasks[job.celery_task_id].state = "PENDING"
            IN /\ transport' =
                    [transport EXCEPT
                       !.jobs[id] = CancelJob(job),
                       !.tasks = IF revoked
                                 THEN [@ EXCEPT ![job.celery_task_id].state = "REVOKED"]
                                 ELSE @]
               /\ reply' = Reply("cancel_conversion", TRUE, NoneBytes)
       ELSE /\ reply' = Reply("cancel_conversion", FALSE, NoneBytes)
            /\ UNCHANGED transport
    /\ outside' = {}
    /\ UNCHANGED <<jobs, runs, cur, forced, call>>

\* AsyncQueueService.retry_conversion: ValueError unless the job is FAILED or
\* CANCELLED; otherwise start_conversion again for the same id with
\* pdf_bytes = b"" (line 251).  The call is taken between two tasks of the
\* worker.
RetryConversion(id) ==
    /\ ~transport.loop
    /\ IF TransportStored(id) /\ transport.jobs[id].state \in {"FAILED", "CANCELLED"}
       THEN \E sent \in BOOLEAN :
              /\ transport' = Enqueue(id, transport.jobs[id].ocr_enabled,
                                      EmptyBytes, sent)
              /\ reply' = Reply("retry_conversion", sent, NoneBytes)
       ELSE /\ reply' = Reply("retry_conversion", FALSE, NoneBytes)
            /\ UNCHANGED transport
    /\ outside' = {}
    /\ UNCHANGED <<jobs, runs, cur, forced, call>>

NextTransport ==
    \/ \E id \in ConversionIds, ocr \in BOOLEAN, pdf \in PdfInputs :
         StartConversion(id, ocr, pdf)
    \/ \E id \in ConversionIds : TaskStartConversion(id)
    \/ \E id \in ConversionIds : TaskReturn(id)
    \/ \E id \in ConversionIds : GetStatus(id)
    \/ \E id \in ConversionIds : CancelConversion(id)
    \/ \E id \in ConversionIds : RetryConversion(id)
    \/ \E r \in RunIds : RunBegin(r)
    \/ \E r \in RunIds : Analyze(r)
    \/ \E r \in RunIds : CheckCancel(r, "check1", "extract")
    \/ \E r \in RunIds : Extract(r)
    \/ \E r \in RunIds : Chunk(r)
    \/ \E r \in RunIds : CheckCancel(r, "check2", "ocr_gate")
    \/ \E r \in RunIds : OcrGate(r)
    \/ \E r \in RunIds : Resume(r)
    \/ \E r \in RunIds : CheckCancel(r, "check3", "epub")
    \/ \E r \in RunIds : Epub(r)
    \/ \E r \in RunIds : Validate(r)
    \/ \E r \in RunIds : SetResult(r)
    \/ \E r \in RunIds : SaveToDisk(r)
    \/ \E r \in RunIds : Complete(r)
    \/ \E r \in RunIds : Except(r)

SpecTransport == Init /\ [][NextTransport]_vars

\* ------------------------------------------------- PDFAnalyzer (classifier)
\* Most pages of a document handed to _determine_pdf_type's page counts.
MaxPages == 5
\* Most pages of a document analysed page by page.
MaxDocPages == 3

\* A record of one library call: the function, where the call stands
\* ("call", "return" or "raise"), its arguments and its result.
LibCall(fn, args) == [fn |-> fn, pc |-> "call", args |-> args, ret |-> "none"]

Returns(c, ret) == [c EXCEPT !.pc = "return", !.ret = ret]

Raises(c) == [c EXCEPT !.pc = "raise"]

\* A float quotient a / b, kept exact as the pair <<a, b>>; 0.0 is <<0, 1>>.
Ratio(a, b) == <<a, b>>

\* Mutant of GeqThreshold: the threshold is exclusive.
GeqThreshold_Strict(q) == 5 * q[1] > 4 * q[2]

\* `ratio >= 0.8` for a quotient of page counts (4/5 divides to the double
\* that the literal 0.8 denotes, and no other quotient of counts below 2^50
\* rounds across it).
GeqThreshold(q) == 5 * q[1] >= 4 * q[2]

\* PDFAnalyzer._determine_pdf_type: <<type, mixed_ratio>>.
determine_pdf_type(total_pages, text_pages_count, scanned_pages_count) ==
    IF total_pages = 0
    THEN <<"TEXT_BASED", Ratio(0, 1)>>
    ELSE LET text_ratio == Ratio(text_pages_count, total_pages)
             scanned_ratio == Ratio(scanned_pages_count, total_pages)
         IN IF GeqThreshold(text_ratio) THEN <<"TEXT_BASED", Ratio(0, 1)>>
            ELSE IF GeqThreshold(scanned_ratio) THEN <<"SCANNED", Ratio(0, 1)>>
            ELSE <<"MIXED", scanned_ratio>>

\* A page as PyMuPDF presents it: whether reading it raises, whether its
\* text is non-blank, the length of its text, its number of distinct images
\* and its area.  Lengths and areas are chosen so that the density in
\* thousandths and the confidence in hundredths are whole numbers.
Page(raises, has_text, text_length, image_count, area) ==
    [raises |-> raises, has_text |-> has_text, text_length |-> text_length,
     image_count |-> image_count, area |-> area]

Pages ==
    {Page(TRUE, FALSE, 0, 0, 0),          \* cannot be read
     Page(FALSE, FALSE, 0, 0, 100000),    \* blank
     Page(FALSE, TRUE, 500, 0, 100000),   \* text
     Page(FALSE, TRUE, 40, 1, 100000),    \* an image with a caption
     Page(FALSE, TRUE, 500, 2, 100000)}   \* text with two images

Min(a, b) == IF a < b THEN a ELSE b

\* PDFAnalyzer._calculate_text_density, in thousandths:
\* min(len(text) * 100 / page_area, 1.0), 0.0 for an empty area.
calculate_text_density(page) ==
    IF page.area <= 0 THEN 0
    ELSE Min((page.text_length * 100 * 1000) \div page.area, 1000)

\* self.text_density_threshold = 0.1, in thousandths.
text_density_threshold == 100

\* Mutant of is_scanned_page: a page without text is not scanned for that
\* reason alone.
is_scanned_page_TextBlind(has_text, text_density, image_count, text_length) ==
    \/ text_density < text_density_threshold
    \/ image_count > 0 /\ text_length < image_count * 100

\* PDFAnalyzer._is_scanned_page.
is_scanned_page(has_text, text_density, image_count, text_length) ==
    IF ~has_text \/ text_density < text_density_threshold THEN TRUE
    ELSE IF image_count > 0 /\ text_length < image_count * 100 THEN TRUE
    ELSE IF has_text /\ text_length = 0 /\ image_count > 0 THEN TRUE
    ELSE IF text_density < text_density_threshold THEN TRUE
    ELSE IF image_count > 0
            /\ text_length < 50 * (IF image_count > 1 THEN image_count ELSE 1)
         THEN TRUE
    ELSE FALSE

\* PDFAnalyzer._calculate_page_confidence, in hundredths.
calculate_page_confidence(text_density, image_count, is_scanned) ==
    IF is_scanned
    THEN LET c1 == IF image_count > 0 THEN Min(50 + image_count * 10, 90) ELSE 50
         IN IF text_density > 0 THEN Min(c1 + (text_density \div 20), 90) ELSE c1
    ELSE Min(50 + ((2 * text_density) \div 25), 95)

PageAnalysisResult(page_number, has_text, text_length, image_count, scanned, confidence) ==
    [page_number |-> page_number, has_text |-> has_text,
     text_content_length |-> text_length, image_count |-> image_count,
     is_scanned_page |-> scanned, confidence_score |-> confidence]

\* PDFAnalyzer._analyze_page(doc, page_num) for a page that can be read.
analyze_page(page, page_num) ==
    LET text_density == calculate_text_density(page)
        is_scanned == is_scanned_page(page.has_text, text_density,
                                      page.image_count, page.text_length)
    IN PageAnalysisResult(page_num + 1, page.has_text,
                          IF is_scanned THEN 0 ELSE page.text_length,
                          page.image_count, is_scanned,
                          calculate_page_confidence(text_density,
                                                    page.image_count, is_scanned))

\* Pages over a wider range of text lengths, image counts and areas, for
\* the scanned-page rule alone: a page that has text has at least one
\* character.
RulePages ==
    {Page(FALSE, h, l, n, a) :
        h \in BOOLEAN, l \in {0, 1, 40, 49, 50, 99, 100, 150, 600},
        n \in 0..2, a \in {0, 400, 10000, 100000}}
    \ {Page(FALSE, TRUE, 0, n, a) : n \in 0..2, a \in {0, 400, 10000, 100000}}

\* Lines 333-340 of _analyze_page: the density of the page and the verdict
\* of _is_scanned_page on it.
page_is_scanned(page) ==
    LET text_density == calculate_text_density(page)
    IN [text_density |-> text_density,
        is_scanned |-> is_scanned_page(page.has_text, text_density,
                                       page.image_count, page.text_length)]

\* Mutant of PageFallback: the page that failed is left unclassified.
PageFallback_Text(page_num) == PageAnalysisResult(page_num, FALSE, 0, 0, FALSE, 50)

\* The entry analyze_pdf appends when _analyze_page raised (lines 280-287).
PageFallback(page_num) == PageAnalysisResult(page_num, FALSE, 0, 0, TRUE, 50)

\* A document: whether PyMuPDF opens it, and its pages.
Docs ==
    {[opens |-> o, pages |-> ps] :
        o \in {TRUE},
        ps \in UNION {[1..n -> Pages] : n \in 0..MaxDocPages}}
    \cup {[opens |-> FALSE, pages |-> << >>]}

\* PDFAnalyzer.analyze_pdf: the analysis; it raises (ValueError) for a file
\* that does not open or has no page.
analyze_pdf(doc) ==
    IF ~doc.opens \/ Len(doc.pages) = 0 THEN [raised |-> TRUE]
    ELSE LET total_pages == Len(doc.pages)
             pages_analysis ==
                 [i \in 1..total_pages |->
                    IF doc.pages[i].raises THEN PageFallback(i - 1)
                    ELSE analyze_page(doc.pages[i], i - 1)]
             text_pages_count ==
                 Cardinality({i \in 1..total_pages : ~pages_analysis[i].is_scanned_page})
             scanned_pages_count ==
                 Cardinality({i \in 1..total_pages : pages_analysis[i].is_scanned_page})
             typed == determine_pdf_type(total_pages, text_pages_count,
                                         scanned_pages_count)
         IN [raised |-> FALSE, pdf_type |-> typed[1], total_pages |-> total_pages,
             pages_analysis |-> pages_analysis, mixed_ratio |-> typed[2]]

\* The page counts _determine_pdf_type is called with: a split of the pages
\* into text pages and scanned pages.
PageCounts ==
    {<<n, t, n - t>> : n \in 0..MaxPages, t \in 0..MaxPages} \cap
    {c \in (0..MaxPages) \X (0..MaxPages) \X (0..MaxPages) : c[2] <= c[1]}

InitClassifier ==
    /\ OrchestratorInit
    /\ TransportInit
    /\ \/ call \in {LibCall("determine_pdf_type", c) : c \in PageCounts}
       \/ call \in {LibCall("analyze_pdf", d) : d \in Docs}
       \/ call \in {LibCall("is_scanned_page", pg) : pg \in RulePages}

DeterminePdfType ==
    /\ call.fn = "determine_pdf_type" /\ call.pc = "call"
    /\ call' = Returns(call, determine_pdf_type(call.args[1], call.args[2],
                                                call.args[3]))
    /\ UNCHANGED <<jobs, runs, cur, reply, forced, outside, transport>>

AnalyzePdf ==
    /\ call.fn = "analyze_pdf" /\ call.pc = "call"
    /\ call' = IF analyze_pdf(call.args).raised
               THEN Raises(call)
               ELSE Returns(call, analyze_pdf(call.args))
    /\ UNCHANGED <<jobs, runs, cur, reply, forced, outside, transport>>

IsScannedPage ==
    /\ call.fn = "is_scanned_page" /\ call.pc = "call"
    /\ call' = Returns(call, page_is_scanned(call.args))
    /\ UNCHANGED <<jobs, runs, cur, reply, forced, outside, transport>>

NextClassifier ==
    \/ DeterminePdfType
    \/ AnalyzePdf
    \/ IsScannedPage

SpecClassifier == InitClassifier /\ [][NextClassifier]_vars

\* --------------------------------------------------- PDFExtractor (chunker)
\* Most pages of a document handed to the chunker.
MaxTextPages == 4
\* Largest chunk_chars argument.
MaxChars == 3

\* A page's text is a sequence of characters; " " stands for white space.
PageTexts == {<< >>, <<" ">>, <<"a">>, <<"b", "c">>}

\* `text.strip()` is falsy: the text is empty or all white space.
IsBlank(text) == \A i \in 1..Len(text) : text[i] = " "

\* str(page_num)
PageStr(page_num) == <<"1", "2", "3", "4", "5", "6">>[page_num]

\* f"=== 페이지 {page_num} ===\n{text}"
Snippet(page_num, text) == <<"=== ", PageStr(page_num), " ===\n">> \o text

RECURSIVE Join(_, _)
\* sep.join(parts)
Join(sep, parts) ==
    IF parts = << >> THEN << >>
    ELSE IF Len(parts) = 1 THEN parts[1]
    ELSE parts[1] \o sep \o Join(sep, Tail(parts))

\* int(chunk_chars or 10000)
MaxCharsOf(chunk_chars) == IF chunk_chars = 0 THEN 10000 ELSE chunk_chars

TextChunk(start_page, end_page, parts, page_texts) ==
    [start_page |-> start_page, end_page |-> end_page,
     total_text |-> Join(<<"\n\n">>, parts), page_texts |-> page_texts]

\* Mutant of AddPageText: the entry is put in front.
AddPageText_Front(current_page_texts, page_num, text) ==
    <<[page |-> PageStr(page_num), text |-> text]>> \o current_page_texts

\* current_page_texts.append({"page": str(page_num), "text": text})
AddPageText(current_page_texts, page_num, text) ==
    Append(current_page_texts, [page |-> PageStr(page_num), text |-> text])

\* Mutant of NextStartPage: the next chunk starts on the page just stored.
NextStartPage_Same(page_num) == page_num

\* start_page = page_num + 1 after a chunk was stored.
NextStartPage(page_num) == page_num + 1

\* Mutant of FlushDue: a chunk is stored only above max_chars.
FlushDue_Over(current_chars, max_chars) == current_chars > max_chars

\* if current_chars >= max_chars: the chunk is stored.
FlushDue(current_chars, max_chars) == current_chars >= max_chars

RECURSIVE ChunkLoop(_, _, _, _, _, _, _, _)
\* The page loop of extract_text_in_chunks from page_num on, and the last
\* chunk after it.
ChunkLoop(pages, max_chars, page_num, chunks, current_parts, current_page_texts, current_chars, start_page) ==
    IF page_num > Len(pages)
    THEN IF current_parts # << >>
         THEN Append(chunks, TextChunk(start_page, Len(pages), current_parts,
                                       current_page_texts))
         ELSE chunks
    ELSE LET text == pages[page_num]
             keep == ~IsBlank(text)
             parts == IF keep THEN Append(current_parts, Snippet(page_num, text))
                      ELSE current_parts
             page_texts == IF keep
                           THEN AddPageText(current_page_texts, page_num, text)
                           ELSE current_page_texts
             chars == IF keep THEN current_chars + Len(text) ELSE current_chars
         IN IF FlushDue(chars, max_chars)
            THEN ChunkLoop(pages, max_chars, page_num + 1,
                           Append(chunks, TextChunk(start_page, page_num, parts,
                                                    page_texts)),
                           << >>, << >>, 0, NextStartPage(page_num))
            ELSE ChunkLoop(pages, max_chars, page_num + 1, chunks, parts,
                           page_texts, chars, start_page)

\* PDFExtractor.extract_text_in_chunks: the chunks; it raises (ValueError)
\* for a file that does not open.
extract_text_in_chunks(doc, chunk_chars) ==
    IF ~doc.opens THEN [raised |-> TRUE]
    ELSE [raised |-> FALSE,
          chunks |-> ChunkLoop(doc.pages, MaxCharsOf(chunk_chars), 1, << >>,
                               << >>, << >>, 0, 1)]

TextDocs ==
    {[opens |-> o, pages |-> ps] :
        o \in {TRUE},
        ps \in UNION {[1..n -> PageTexts] : n \in 0..MaxTextPages}}
    \cup {[opens |-> FALSE, pages |-> << >>]}

InitChunker ==
    /\ OrchestratorInit
    /\ TransportInit
    /\ call \in {LibCall("extract_text_in_chunks", [doc |-> d, chunk_chars |-> c]) :
                    d \in TextDocs, c \in 0..MaxChars}

ExtractTextInChunks ==
    /\ call.fn = "extract_text_in_chunks" /\ call.pc = "call"
    /\ LET out == extract_text_in_chunks(call.args.doc, call.args.chunk_chars)
       IN call' = IF out.raised THEN Raises(call) ELSE Returns(call, out.chunks)
    /\ UNCHANGED <<jobs, runs, cur, reply, forced, outside, transport>>

NextChunker ==
    \/ ExtractTextInChunks

SpecChunker == InitChunker /\ [][NextChunker]_vars

\* ------------------------------------------------------------ epub_validator
\* Most items of a package's manifest.
MaxItems == 2

\* A manifest item: its id, its href ("" when the attribute is missing),
\* whether the file the href resolves to is in the archive, its properties
\* attribute as characters, and whether the element has child elements.
Item(id, href, exists, properties, children) ==
    [id |-> id, href |-> href, exists |-> exists, properties |-> properties,
     children |-> children]

ManifestItems ==
    {Item("ch", "ch.xhtml", TRUE, << >>, FALSE),
     Item("nav", "nav.xhtml", TRUE, <<"n", "a", "v">>, FALSE),
     Item("nav", "", FALSE, <<"n", "a", "v">>, FALSE),
     Item("nav", "nav.xhtml", FALSE, <<"N", "a", "v">>, FALSE),
     Item("ncx", "toc.ncx", TRUE, << >>, FALSE),
     Item("ncx", "toc.ncx", FALSE, << >>, TRUE),
     Item("ncx", "toc.ncx", TRUE, << >>, TRUE)}

\* The package's version attribute and spine@toc.
Versions == {"", "2.0", "3.0", "abc"}

TocIds == {"", "ncx", "toc"}

\* The bytes handed to the validator, by what the validator reads of them:
\* whether they are a ZIP archive and have entries, the first entry's name,
\* compression and content, the container file, and the package file: "ok",
\* "unparsable" (not XML), "not_package" (another root element) or
\* "no_spine" (a package with a manifest and no spine).
EpubInputs ==
    {[zip |-> z, first_name |-> fn, first_stored |-> fs, first_content |-> fc,
      container |-> c, opf |-> o, version |-> v, items |-> its, toc |-> t] :
        z \in {"ok"}, fn \in BOOLEAN, fs \in BOOLEAN, fc \in BOOLEAN,
        c \in {"ok"}, o \in {"ok", "not_package", "no_spine"}, v \in Versions,
        its \in UNION {[1..n -> ManifestItems] : n \in 0..MaxItems},
        t \in TocIds}
    \cup
    {[zip |-> z, first_name |-> fn, first_stored |-> fs, first_content |-> fc,
      container |-> c, opf |-> o, version |-> "", items |-> << >>, toc |-> ""] :
        z \in {"invalid", "empty", "ok"}, fn \in BOOLEAN, fs \in BOOLEAN,
        fc \in BOOLEAN, c \in {"missing", "invalid", "ok"},
        o \in {"unparsable", "ok"}}

\* float(version) if version else 0.0, 0.0 when it does not parse; in tenths.
VersionNumber(version) ==
    CASE version = "2.0" -> 20
      [] version = "3.0" -> 30
      [] OTHER -> 0

\* str.lower() on the characters used.
Lower(chars) ==
    [i \in 1..Len(chars) |-> IF chars[i] = "N" THEN "n" ELSE chars[i]]

\* "nav" in props
ContainsNav(props) ==
    \E i \in 1..(Len(props) - 2) : SubSeq(props, i, i + 2) = <<"n", "a", "v">>

\* A return before the package is looked at: valid is written as False.
EarlyResult(errors, warnings) ==
    [valid |-> FALSE, errors |-> errors, warnings |-> warnings]

\* Mutant of FinalResult: a warning makes the result invalid.
FinalResult_Warnings(errors, warnings) ==
    [valid |-> (Len(errors) = 0 /\ Len(warnings) = 0),
     errors |-> errors, warnings |-> warnings]

\* valid = len(errors) == 0
FinalResult(errors, warnings) ==
    [valid |-> (Len(errors) = 0), errors |-> errors, warnings |-> warnings]

\* Lines 67-98: the checks of the first archive entry.
MimetypeErrors(b) ==
    (IF b.first_name THEN << >> ELSE <<"MIMETYPE_FIRST">>)
    \o (IF b.first_stored THEN << >> ELSE <<"MIMETYPE_STORED">>)
    \o (IF b.first_content THEN << >> ELSE <<"MIMETYPE_CONTENT">>)

RECURSIVE ManifestErrors(_)
\* Lines 157-179: one error per item without href or whose file is missing.
ManifestErrors(items) ==
    IF items = << >> THEN << >>
    ELSE (IF Head(items).href = "" THEN <<"MANIFEST_ITEM_NO_HREF">>
          ELSE IF ~Head(items).exists THEN <<"RESOURCE_MISSING">>
          ELSE << >>)
         \o ManifestErrors(Tail(items))

\* Lines 156-170: hrefs holds the items that have an href.
Hrefs(items) == SelectSeq(items, LAMBDA it : it.href # "")

\* Lines 188-193: the nav document is looked for among hrefs.
NavFound(items) ==
    \E i \in 1..Len(Hrefs(items)) : ContainsNav(Lower(Hrefs(items)[i].properties))

\* Lines 205-242: EPUB 2, spine@toc.  `if not found` is the truth value of
\* the element found: an element without child elements is falsy.
TocIssues(items, toc) ==
    IF toc = "" THEN [errors |-> << >>, warnings |-> <<"TOC_NOT_DECLARED">>]
    ELSE LET matches == SelectSeq(items, LAMBDA it : it.id = toc)
         IN IF matches = << >> \/ ~Head(matches).children
            THEN [errors |-> <<"TOC_REF_INVALID">>, warnings |-> << >>]
            ELSE IF Head(matches).href = "" \/ ~Head(matches).exists
            THEN [errors |-> <<"TOC_FILE_MISSING">>, warnings |-> << >>]
            ELSE [errors |-> << >>, warnings |-> << >>]

\* validate_epub_bytes.
validate_epub_bytes(b) ==
    IF b.zip = "invalid" THEN EarlyResult(<<"ZIP_INVALID">>, << >>)
    ELSE IF b.zip = "empty" THEN EarlyResult(<<"ZIP_EMPTY">>, << >>)
    ELSE LET e1 == MimetypeErrors(b)
         IN IF b.container = "missing"
            THEN EarlyResult(e1 \o <<"CONTAINER_MISSING">>, << >>)
            ELSE IF b.container = "invalid"
            THEN EarlyResult(e1 \o <<"CONTAINER_INVALID">>, << >>)
            ELSE IF b.opf # "ok"
            THEN FinalResult(e1 \o <<"OPF_INVALID">>, << >>)
            ELSE LET e2 == e1 \o ManifestErrors(b.items)
                 IN IF VersionNumber(b.version) >= 30
                    THEN FinalResult(e2 \o (IF NavFound(b.items) THEN << >>
                                            ELSE <<"NAV_MISSING">>), << >>)
                    ELSE LET toc == TocIssues(b.items, b.toc)
                         IN FinalResult(e2 \o toc.errors, toc.warnings)

InitValidator ==
    /\ OrchestratorInit
    /\ TransportInit
    /\ call \in {LibCall("validate_epub_bytes", b) : b \in EpubInputs}

ValidateEpubBytes ==
    /\ call.fn = "validate_epub_bytes" /\ call.pc = "call"
    /\ call' = Returns(call, validate_epub_bytes(call.args))
    /\ UNCHANGED <<jobs, runs, cur, reply, forced, outside, transport>>

NextValidator ==
    \/ ValidateEpubBytes

SpecValidator == InitValidator /\ [][NextValidator]_vars

\* ---------------------------------------------------------------- claims
Terminal == {"COMPLETED", "FAILED", "CANCELLED"}

\* A step that creates a run: start, an accepted retry or the automatic retry.
RunCreated == Len(runs') > Len(runs)

\* A step of a pipeline run: some run moved and none was created.
RunMoved == runs' # runs /\ ~RunCreated

\* Every run created so far has returned.
AllReturned == cur = NoTask /\ \A r \in RunIds : runs[r].pc = "done"

\* C1: a job cancelled right after start, before its run has recorded any
\* checkpoint, stays CANCELLED with progress 0: no step that is not a retry
\* writes its state or its progress afterwards.
C1_CancelBeforeFirstCheckpoint ==
    [][\A id \in DOMAIN jobs :
         (/\ jobs[id].cancel_event
          /\ jobs[id].state = "CANCELLED"
          /\ jobs[id].steps = << >>
          /\ ~RunCreated)
         => (jobs'[id].state = "CANCELLED" /\ jobs'[id].progress = 0)]_vars

\* C2: once cancel has been called, no step of a run writes the job's state:
\* it stays CANCELLED until a retry is called.
C2_CancelledStaysCancelled ==
    [][\A id \in DOMAIN jobs :
         (jobs[id].cancel_event /\ jobs[id].state = "CANCELLED" /\ RunMoved)
         => jobs'[id].state = "CANCELLED"]_vars

\* C3: a job does not stay PENDING or PROCESSING for ever: when every run
\* created for it has returned, its state is COMPLETED, FAILED or CANCELLED.
C3_QuiescentIsTerminal ==
    \A id \in DOMAIN jobs : AllReturned => jobs[id].state \in Terminal

\* C4: within one run the progress values written are non-decreasing: every
\* write of a run is at least the value the same run wrote last, and the
\* run's record of its last write is the value it wrote.
C4_ProgressNonDecreasing ==
    [][\A r \in RunIds :
         (RunMoved /\ runs'[r] # runs[r] /\ runs[r].pc # "start")
         => LET id == runs[r].conversion_id
            IN /\ jobs'[id].progress # jobs[id].progress
                    => jobs'[id].progress >= runs[r].last
               /\ Len(jobs'[id].steps) > Len(jobs[id].steps)
                    => /\ jobs'[id].progress = jobs'[id].steps[Len(jobs'[id].steps)].progress
                       /\ jobs'[id].progress >= runs[r].last
                       /\ runs'[r].last = jobs'[id].progress
               /\ runs'[r].pc # "done" => runs'[r].last >= runs[r].last]_vars

\* C4 witness: a run on the chunked path has written its last chunk's
\* progress and gone on to the validate checkpoint.
C4_Witness ==
    \E r \in RunIds : runs[r].nchunks > 1 /\ runs[r].last = 95

C7_CancelIdempotent ==
    [][\A id \in DOMAIN jobs :
         Cancel(id)
         => /\ reply' = Reply("cancel", TRUE, NoneBytes)
            /\ jobs'[id].state = "CANCELLED"
            /\ jobs'[id].cancel_event
            /\ (jobs[id].state = "CANCELLED" /\ jobs[id].cancel_event)
                 => jobs' = jobs
            /\ runs' = runs]_vars

\* C7 witness: cancel has been called on a job whose event was set by an
\* earlier cancel and whose state a run had overwritten in between.
C7_Witness ==
    \E id \in DOMAIN jobs :
        /\ reply = Reply("cancel", TRUE, NoneBytes)
        /\ jobs[id].state = "CANCELLED"
        /\ jobs[id].cancel_event
        /\ jobs[id].steps # << >>
        /\ AllReturned

\* C8: download succeeds exactly when the job is stored, COMPLETED and has
\* result bytes; it then returns the stored bytes, which are the encoder's
\* output of the run whose completion write made the job COMPLETED; in every
\* case it changes no job and no run.
C8_Download ==
    [][\A id \in ConversionIds :
         /\ Download(id)
              => /\ reply'.op = "download"
                 /\ reply'.ok <=> /\ Stored(id)
                                  /\ jobs[id].state = "COMPLETED"
                                  /\ Truthy(jobs[id].result_bytes)
                 /\ reply'.ok => reply'.data = jobs[id].result_bytes
                 /\ jobs' = jobs /\ runs' = runs
         /\ (Stored(id) /\ jobs'[id].state = "COMPLETED" /\ jobs[id].state # "COMPLETED")
              => \E r \in RunIds : /\ cur = r
                                   /\ runs[r].pc = "complete"
                                   /\ jobs'[id].result_bytes = EpubOf(r)
         /\ (Stored(id) /\ jobs[id].state = "COMPLETED" /\ jobs'[id].state = "COMPLETED")
              => jobs'[id].result_bytes = jobs[id].result_bytes]_vars

\* C8 witness: download has returned the bytes of a COMPLETED job.
C8_Witness ==
    \E id \in DOMAIN jobs :
        /\ reply.op = "download" /\ reply.ok
        /\ reply.data.kind = "epub"
        /\ reply.data = jobs[id].result_bytes
        /\ jobs[id].state = "COMPLETED"

\* C9: the failure handler: with attempts below max_retries the job goes
\* back to PENDING, the run sleeps for min(5 * attempts, 30) and then creates
\* exactly one new run on the same pdf_bytes, at its start; otherwise the job
\* is FAILED with this failure's error message and no run is created.
C9_FailureHandler ==
    [][\A r \in RunIds :
         LET id == runs[r].conversion_id
         IN /\ Except(r)
                 => IF jobs[id].attempts < max_retries
                    THEN /\ jobs'[id].state = "PENDING"
                         /\ runs'[r].pc = "backoff"
                         /\ runs'[r].backoff = Backoff(jobs[id].attempts)
                         /\ runs'[r].pdf_bytes = runs[r].pdf_bytes
                    ELSE /\ jobs'[id].state = "FAILED"
                         /\ jobs'[id].error_message = runs[r].err
                         /\ runs[r].err # "None"
                         /\ runs'[r].pc = "done"
                         /\ ~RunCreated
            /\ (runs[r].pc = "backoff" /\ runs'[r] # runs[r])
                 => /\ Len(runs') = Len(runs) + 1
                    /\ runs'[Len(runs')] = NewRun(id, runs[r].pdf_bytes)
                    /\ runs'[r].pc = "done"
            /\ (runs[r].pc = "except" /\ runs'[r] # runs[r]) => Except(r)]_vars

\* C9 witness: a run failed in the encoder and its handler left the job
\* FAILED with that error.
C9_Witness ==
    \E id \in DOMAIN jobs :
        /\ jobs[id].state = "FAILED"
        /\ jobs[id].error_message = "encoding"
        /\ AllReturned

\* The job holds a result: result bytes or a result path.
HasResult(j) == Truthy(j.result_bytes) \/ j.result_path # "None"

\* A validate checkpoint is in the job's step log.
HasValidated(j) == \E i \in 1..Len(j.steps) : j.steps[i].name = StepName("validate")

\* C10 as stated: in every state a caller can observe, a job holds a result
\* only if it is COMPLETED.
C10_ResultOnlyWhenCompleted ==
    \A id \in DOMAIN jobs :
        (cur = NoTask /\ HasResult(jobs[id])) => jobs[id].state = "COMPLETED"

\* C10 amended: in every state a caller can observe, a COMPLETED job holds
\* result bytes, and a job holds a result only if one of its runs got past
\* the validate checkpoint and stored it; the result is kept when the job
\* leaves COMPLETED.
C10_ResultOnlyAfterCompletion ==
    \A id \in DOMAIN jobs :
        cur = NoTask
        => /\ jobs[id].state = "COMPLETED" => Truthy(jobs[id].result_bytes)
           /\ HasResult(jobs[id])
                => /\ HasValidated(jobs[id])
                   /\ jobs[id].result_bytes.kind = "epub"

\* C10 witness: a completed job was cancelled and still holds its result.
C10_Witness ==
    \E id \in DOMAIN jobs :
        /\ cur = NoTask
        /\ jobs[id].state = "CANCELLED"
        /\ Truthy(jobs[id].result_bytes)

\* C11: error_message is set only while the job is FAILED.
C11_ErrorMessageOnlyWhenFailed ==
    \A id \in DOMAIN jobs :
        jobs[id].error_message # "None" => jobs[id].state = "FAILED"

\* The runs created for job id.
RunsOf(id) == {r \in RunIds : runs[r].conversion_id = id}

\* C12: attempts counts the runs started for the job: once every run created
\* for it has started, attempts is the number of those runs.
C12_AttemptsCountsRunStarts ==
    \A id \in DOMAIN jobs :
        (\A r \in RunsOf(id) : runs[r].pc # "start")
        => jobs[id].attempts = Cardinality(RunsOf(id))

\* C13: no step writes a field of a job with the store's lock released.
C13_WritesUnderLock == outside = {}

\* C14: a run whose encoder returned bytes goes from the validate checkpoint
\* through set_result and the disk save to the completion write without
\* giving up the event loop, whatever the validator's verdict: it never
\* enters the failure handler, the job is never FAILED on the way, no run is
\* created, and the job ends COMPLETED at 100 with the encoder's bytes.
C14_ValidationNeverFails ==
    [][\A r \in RunIds :
         LET id == runs[r].conversion_id
         IN (runs[r].pc \in {"validate", "set_result", "save", "complete"}
             /\ runs'[r] # runs[r])
            => /\ cur = r
               /\ runs[r].epub = EpubOf(r)
               /\ ~RunCreated
               /\ jobs'[id].state # "FAILED"
               /\ runs[r].pc = "validate"
                    => runs'[r].pc = "set_result" /\ runs'[r].epub = EpubOf(r)
               /\ runs[r].pc = "set_result"
                    => runs'[r].pc = "save" /\ jobs'[id].result_bytes = EpubOf(r)
               /\ runs[r].pc = "save" => runs'[r].pc = "complete"
               /\ runs[r].pc = "complete"
                    => /\ runs'[r].pc = "done"
                       /\ jobs'[id].state = "COMPLETED"
                       /\ jobs'[id].progress = 100
                       /\ jobs'[id].result_bytes = EpubOf(r)]_vars

\* C14 witness: a job is COMPLETED at 100 with the bytes of a run whose
\* validation reported them invalid.
C14_Witness ==
    \E r \in RunIds :
        /\ runs[r].pc = "done"
        /\ ~runs[r].valid
        /\ JobOf(r).state = "COMPLETED"
        /\ JobOf(r).progress = 100
        /\ JobOf(r).result_bytes = EpubOf(r)

\* C15: for a document of n >= 1 pages split into t text pages and s scanned
\* pages, the type is TEXT_BASED iff t/n >= 0.8 (80 percent or more,
\* inclusive), otherwise SCANNED iff s/n >= 0.8, otherwise MIXED; mixed_ratio
\* is 0 unless the type is MIXED, and then it is s/n.
C15_PdfTypeThresholds ==
    (call.fn = "determine_pdf_type" /\ call.pc = "return" /\ call.args[1] >= 1)
    => LET n == call.args[1]
           t == call.args[2]
           sc == call.args[3]
           type == call.ret[1]
           mixed_ratio == call.ret[2]
           TextPercent == (100 * t) \div n
           ScannedPercent == (100 * sc) \div n
       IN /\ type \in PDFType
          /\ type = "TEXT_BASED" <=> TextPercent >= 80
          /\ type = "SCANNED" <=> (TextPercent < 80 /\ ScannedPercent >= 80)
          /\ type = "MIXED" <=> (TextPercent < 80 /\ ScannedPercent < 80)
          /\ type # "MIXED" => mixed_ratio[1] = 0
          /\ type = "MIXED" => (mixed_ratio[2] > 0
                                /\ mixed_ratio[1] * n = sc * mixed_ratio[2])

\* C15 witness: one text page and four scanned pages of five, exactly 0.8
\* scanned, are classified SCANNED.
C15_Witness ==
    /\ call.fn = "determine_pdf_type" /\ call.pc = "return"
    /\ call.args = <<5, 1, 4>>
    /\ call.ret[1] = "SCANNED"

\* C16: for a file that opens, classification raises iff it has no page;
\* otherwise the result has one entry per page, the entry of a page whose
\* analysis raised is scanned with confidence 0.5 and no image, the entry of
\* every other page is that page's own analysis, and the type is the type
\* of the counts over all entries.
C16_PageFallback ==
    (call.fn = "analyze_pdf" /\ call.pc # "call" /\ call.args.opens)
    => LET pages == call.args.pages
           n == Len(pages)
       IN /\ call.pc = "raise" <=> n = 0
          /\ call.pc = "return"
               => LET entries == call.ret.pages_analysis
                      Scanned == {i \in 1..n : entries[i].is_scanned_page}
                  IN /\ DOMAIN entries = 1..n
                     /\ call.ret.total_pages = n
                     /\ \A i \in 1..n :
                          IF pages[i].raises
                          THEN /\ entries[i].is_scanned_page
                               /\ entries[i].confidence_score = 50
                               /\ entries[i].image_count = 0
                               /\ ~entries[i].has_text
                          ELSE entries[i] = analyze_page(pages[i], i - 1)
                     /\ <<call.ret.pdf_type, call.ret.mixed_ratio>>
                          = determine_pdf_type(n, n - Cardinality(Scanned),
                                               Cardinality(Scanned))

\* C16 witness: the second of three pages could not be analysed, its
\* neighbours are text pages, and the document came out MIXED.
C16_Witness ==
    /\ call.fn = "analyze_pdf" /\ call.pc = "return"
    /\ Len(call.args.pages) = 3
    /\ call.args.pages[2].raises
    /\ call.ret.pages_analysis[2].is_scanned_page
    /\ ~call.ret.pages_analysis[1].is_scanned_page
    /\ ~call.ret.pages_analysis[3].is_scanned_page
    /\ call.ret.pdf_type = "MIXED"

RECURSIVE Concat(_)
\* The sequences of a sequence, concatenated in order.
Concat(seqs) == IF seqs = << >> THEN << >> ELSE Head(seqs) \o Concat(Tail(seqs))

\* The chunker was called on a file that opens and has returned (max_chars
\* is positive for every chunk_chars drawn: 0 selects the default).
ChunkerReturned ==
    call.fn = "extract_text_in_chunks" /\ call.pc = "return"

\* The pages of the chunker's input whose text is not blank, in page order.
TextPagesOf(pages) == SelectSeq([i \in 1..Len(pages) |-> i],
                               LAMBDA i : ~IsBlank(pages[i]))

\* C17: the per-page texts of the returned chunks, concatenated in chunk
\* order, are the non-blank page texts concatenated in page order; the
\* entries themselves are one per non-blank page, in page order.
C17_ChunksPreserveText ==
    ChunkerReturned
    => LET pages == call.args.doc.pages
           entries == Concat([k \in 1..Len(call.ret) |-> call.ret[k].page_texts])
           kept == TextPagesOf(pages)
       IN /\ Concat([e \in 1..Len(entries) |-> entries[e].text])
               = Concat([j \in 1..Len(kept) |-> pages[kept[j]]])
          /\ Len(entries) = Len(kept)
          /\ \A j \in 1..Len(kept) :
               entries[j] = [page |-> PageStr(kept[j]), text |-> pages[kept[j]]]

\* C17 witness: a document with a blank page between text pages came back
\* in two chunks, the first holding two pages.
C17_Witness ==
    /\ ChunkerReturned
    /\ Len(call.ret) = 2
    /\ Len(call.ret[1].page_texts) = 2
    /\ \E i \in 1..Len(call.args.doc.pages) :
         /\ call.args.doc.pages[i] = <<" ">>
         /\ i > 1 /\ i < Len(call.args.doc.pages)

\* C18: every chunk has start_page <= end_page, the first chunk starts at
\* page 1, each next chunk starts one page after the previous one ends, and
\* every page with text in a chunk lies within the chunk's page range.
C18_ChunksContiguous ==
    ChunkerReturned
    => LET chunks == call.ret
       IN /\ \A k \in 1..Len(chunks) :
               /\ chunks[k].start_page <= chunks[k].end_page
               /\ \A e \in 1..Len(chunks[k].page_texts) :
                    \E n \in chunks[k].start_page..chunks[k].end_page :
                        chunks[k].page_texts[e].page = PageStr(n)
          /\ chunks # << >> => chunks[1].start_page = 1
          /\ \A k \in 1..(Len(chunks) - 1) :
               chunks[k + 1].start_page = chunks[k].end_page + 1

\* C18 witness: three chunks were returned and the second spans more than
\* one page.
C18_Witness ==
    /\ ChunkerReturned
    /\ Len(call.ret) = 3
    /\ call.ret[2].start_page < call.ret[2].end_page

\* C19: the validator returns a result for every input, and on every return
\* path valid is true exactly when there is no error, whatever the number
\* of warnings.
C19_ValidIffNoErrors ==
    (call.fn = "validate_epub_bytes" /\ call.pc # "call")
    => /\ call.pc = "return"
       /\ call.ret.valid <=> call.ret.errors = << >>

\* C19 witness: an EPUB 2 package without spine@toc is valid with a warning.
C19_Witness ==
    /\ call.fn = "validate_epub_bytes" /\ call.pc = "return"
    /\ call.ret.valid
    /\ call.ret.warnings = <<"TOC_NOT_DECLARED">>

\* The elements of a sequence.
Range(seq) == {seq[i] : i \in 1..Len(seq)}

\* C20: for a package that was read, with version >= 3.0 NAV_MISSING is
\* reported iff no manifest item, with or without href, has nav in its
\* properties; with a lower version it is never reported.
C20_NavMissingIff ==
    (/\ call.fn = "validate_epub_bytes" /\ call.pc = "return"
     /\ call.args.zip = "ok" /\ call.args.container = "ok" /\ call.args.opf = "ok")
    => LET items == call.args.items
           HasNav == \E i \in 1..Len(items) : ContainsNav(Lower(items[i].properties))
       IN IF VersionNumber(call.args.version) >= 30
          THEN ("NAV_MISSING" \in Range(call.ret.errors)) <=> ~HasNav
          ELSE "NAV_MISSING" \notin Range(call.ret.errors)

\* The validator returned for a package that was read (archive, container
\* and package file in order).
PackageRead ==
    /\ call.fn = "validate_epub_bytes" /\ call.pc = "return"
    /\ call.args.zip = "ok" /\ call.args.container = "ok" /\ call.args.opf = "ok"

\* C21: for a version below 3.0: with spine@toc set, TOC_REF_INVALID is
\* reported iff no manifest item has that id, and TOC_FILE_MISSING iff such
\* an item exists and its file is not in the archive; with spine@toc absent
\* there is exactly one TOC_NOT_DECLARED warning and no TOC error.
C21_TocChecks ==
    (PackageRead /\ VersionNumber(call.args.version) < 30)
    => LET items == call.args.items
           toc == call.args.toc
           matches == SelectSeq(items, LAMBDA it : it.id = toc)
           errors == Range(call.ret.errors)
       IN IF toc # ""
          THEN /\ "TOC_REF_INVALID" \in errors <=> matches = << >>
               /\ "TOC_FILE_MISSING" \in errors
                    <=> (matches # << >> /\ ~Head(matches).exists)
               /\ call.ret.warnings = << >>
          ELSE /\ call.ret.warnings = <<"TOC_NOT_DECLARED">>
               /\ "TOC_REF_INVALID" \notin errors
               /\ "TOC_FILE_MISSING" \notin errors

\* How often code occurs in a sequence of issue codes.
Count(codes, code) == Cardinality({i \in 1..Len(codes) : codes[i] = code})

\* C26: ZIP_INVALID, ZIP_EMPTY, CONTAINER_MISSING and CONTAINER_INVALID end
\* the validation, keeping the errors found before them; nothing else does:
\* whenever the package file has a manifest, the mimetype errors are kept,
\* every item without href has its MANIFEST_ITEM_NO_HREF, every item whose
\* file is missing its RESOURCE_MISSING, and the NAV or TOC check has run.
C26_OnlyFourTerminal ==
    (call.fn = "validate_epub_bytes" /\ call.pc = "return")
    => LET b == call.args
           errors == call.ret.errors
       IN /\ b.zip = "invalid" => errors = <<"ZIP_INVALID">>
          /\ b.zip = "empty" => errors = <<"ZIP_EMPTY">>
          /\ (b.zip = "ok" /\ b.container = "missing")
               => errors = MimetypeErrors(b) \o <<"CONTAINER_MISSING">>
          /\ (b.zip = "ok" /\ b.container = "invalid")
               => errors = MimetypeErrors(b) \o <<"CONTAINER_INVALID">>
          /\ (b.zip = "ok" /\ b.container = "ok"
              /\ b.opf \in {"ok", "not_package", "no_spine"})
               => /\ SubSeq(errors, 1, Len(MimetypeErrors(b))) = MimetypeErrors(b)
                  /\ Count(errors, "MANIFEST_ITEM_NO_HREF")
                       = Cardinality({i \in 1..Len(b.items) : b.items[i].href = ""})
                  /\ Count(errors, "RESOURCE_MISSING")
                       = Cardinality({i \in 1..Len(b.items) :
                                        b.items[i].href # "" /\ ~b.items[i].exists})
                  /\ (VersionNumber(b.version) >= 30 /\ b.items = << >>)
                       => Count(errors, "NAV_MISSING") = 1
                  /\ (VersionNumber(b.version) < 30 /\ b.toc = "" /\ b.opf # "no_spine")
                       => call.ret.warnings = <<"TOC_NOT_DECLARED">>

\* The scanned-page rule returned for a page.
RuleReturned == call.fn = "is_scanned_page" /\ call.pc = "return"

\* Density below 0.1, from the page: an empty area, or text length * 100
\* less than a tenth of the area.
LowDensity(page) == page.area <= 0 \/ page.text_length * 1000 < page.area

\* C24 as stated: a page is scanned iff its density is below 0.1, or it has
\* images and fewer than 100 characters per image, or it has text of zero
\* length and images, or fewer than 50 characters per image (per page when
\* it has no image).
C24_ScannedIff ==
    RuleReturned
    => LET pg == call.args
       IN call.ret.is_scanned
          <=> \/ LowDensity(pg)
              \/ pg.image_count > 0 /\ pg.text_length < pg.image_count * 100
              \/ pg.has_text /\ pg.text_length = 0 /\ pg.image_count > 0
              \/ pg.text_length
                   < 50 * (IF pg.image_count > 1 THEN pg.image_count ELSE 1)

\* C24 amended: a page is scanned iff it has no text (its text is empty or
\* blank), or its density is below 0.1, or it has images and fewer than 100
\* characters per image.
C24_ScannedRule ==
    RuleReturned
    => LET pg == call.args
       IN call.ret.is_scanned
          <=> \/ ~pg.has_text
              \/ LowDensity(pg)
              \/ pg.image_count > 0 /\ pg.text_length < pg.image_count * 100

\* C24 witness: a page of blank text dense enough to pass the threshold,
\* without images, is scanned.
C24_Witness ==
    /\ RuleReturned
    /\ ~call.args.has_text
    /\ ~LowDensity(call.args)
    /\ call.args.image_count = 0
    /\ call.ret.is_scanned

\* C27: in every classification result the i-th page entry has page_number
\* i, so every page_number is at least 1, the fallback entries included.
C27_PageNumbers ==
    (call.fn = "analyze_pdf" /\ call.pc = "return")
    => \A i \in DOMAIN call.ret.pages_analysis :
         /\ call.ret.pages_analysis[i].page_number = i
         /\ call.ret.pages_analysis[i].page_number >= 1

RECURSIVE TextLen(_)
\* The text length a chunk accumulated: the lengths of its page texts, added.
TextLen(page_texts) ==
    IF page_texts = << >> THEN 0
    ELSE Len(Head(page_texts).text) + TextLen(Tail(page_texts))

\* C25: a chunk is closed at the first page at which the length accumulated
\* since the last flush reaches max_chars: every chunk but the last has
\* reached max_chars, a chunk that reached it ends at its last contributing
\* page and was below max_chars before that page, a chunk below max_chars is
\* the remainder and ends at the last page, and the result is empty exactly
\* when no page has text.
C25_ChunkClosing ==
    ChunkerReturned
    => LET pages == call.args.doc.pages
           max_chars == MaxCharsOf(call.args.chunk_chars)
           chunks == call.ret
       IN /\ \A k \in 1..Len(chunks) :
                LET texts == chunks[k].page_texts
                    last == texts[Len(texts)]
                IN /\ texts # << >>
                   /\ k < Len(chunks) => TextLen(texts) >= max_chars
                   /\ TextLen(texts) >= max_chars
                        => /\ TextLen(texts) - Len(last.text) < max_chars
                           /\ last.page = PageStr(chunks[k].end_page)
                   /\ TextLen(texts) < max_chars
                        => k = Len(chunks) /\ chunks[k].end_page = Len(pages)
          /\ (chunks = << >>) <=> (TextPagesOf(pages) = << >>)

\* A chunk that took two pages to reach max_chars, followed by a remainder.
C25_Witness ==
    /\ ChunkerReturned
    /\ Len(call.ret) = 2
    /\ Len(call.ret[1].page_texts) = 2
    /\ TextLen(call.ret[1].page_texts) >= MaxCharsOf(call.args.chunk_chars)
    /\ TextLen(call.ret[2].page_texts) < MaxCharsOf(call.args.chunk_chars)

\* C28: with max_retries = 1 and attempts counted at every run start, the
\* automatic-retry branch is never taken: the failure handler always finds
\* attempts at max_retries or above, writes FAILED (never PENDING) and the
\* run returns without sleeping; no run is ever in the backoff sleep; and a
\* run is only created by start or by an accepted retry call.
C28_NoAutomaticRetry ==
    [][/\ \A r \in RunIds :
            /\ Except(r)
                 => /\ jobs[runs[r].conversion_id].attempts >= max_retries
                    /\ jobs'[runs[r].conversion_id].state = "FAILED"
                    /\ jobs'[runs[r].conversion_id].state # "PENDING"
                    /\ runs'[r].pc = "done"
            /\ runs[r].pc # "backoff"
            /\ runs'[r].pc # "backoff"
       /\ RunCreated
            => \/ \E id \in ConversionIds, ocr \in BOOLEAN, pdf \in PdfInputs :
                    Start(id, ocr, pdf)
               \/ \E id \in ConversionIds, force \in BOOLEAN :
                    Retry(id, force) /\ reply'.ok]_vars

\* C28 witness: the only run of a job raised once, in its first attempt, and
\* the job is FAILED with no further run created.
C28_Witness ==
    \E id \in DOMAIN jobs :
        /\ jobs[id].state = "FAILED"
        /\ jobs[id].attempts = 1
        /\ jobs[id].error_message # "None"
        /\ Len(runs) = 1
        /\ runs[1].pc = "done"

\* C29: at most one run is active for a job: whenever a later run of the job
\* exists, every earlier run of that job has exited.
C29_OneActiveRun ==
    \A r1 \in RunIds, r2 \in RunIds :
        (r1 < r2 /\ runs[r1].conversion_id = runs[r2].conversion_id)
        => runs[r1].pc = "done"

\* C22: a transport-side job whose Celery task was registered is COMPLETED
\* only when a pipeline run of that job reached its complete step in the
\* worker and the job's result bytes are the EPUB bytes that run produced,
\* and is FAILED only when a run of that job failed.
C22_TransportFollowsPipeline ==
    \A id \in DOMAIN transport.jobs :
        transport.jobs[id].celery_task_id # "None"
        => /\ transport.jobs[id].state = "COMPLETED"
                => /\ Stored(id)
                   /\ jobs[id].state = "COMPLETED"
                   /\ transport.jobs[id].result_bytes.kind = "epub"
                   /\ transport.jobs[id].result_bytes = jobs[id].result_bytes
           /\ transport.jobs[id].state = "FAILED"
                => Stored(id) /\ jobs[id].state = "FAILED"

\* The run that start created for the job: its first run.
FirstRun(id) == CHOOSE r \in RunsOf(id) : \A q \in RunsOf(id) : r <= q

\* C30: the run created by an accepted manual retry receives the PDF input
\* that was submitted with start: the same kind of bytes as the job's first
\* run received (so never empty bytes or encoder output for a submitted PDF),
\* and the very same bytes while the first run still holds its argument.
C30_RetrySameInput ==
    [][\A id \in ConversionIds, force \in BOOLEAN :
         (Retry(id, force) /\ RunCreated)
         => LET new == runs'[Len(runs')]
                first == runs[FirstRun(id)]
            IN /\ new.pdf_bytes.kind = first.pdf_bytes.kind
               /\ first.pc # "done" => new.pdf_bytes = first.pdf_bytes]_vars

\* s is an initial part of t.
IsPrefix(s, t) == Len(s) <= Len(t) /\ \A i \in 1..Len(s) : s[i] = t[i]

\* The step entries of the chunks of a document of n chunks.
ChunkSteps(n) == [i \in 1..n |-> JobStep(ChunkStepName(i), ChunkProgress(i, n))]

\* The step logs of one completed run as described: analyze, extract (or one
\* entry per chunk), the enrichment step only with OCR enabled, generation,
\* validation, completion.
CheckpointLogs(ocr_enabled) ==
    {<<JobStep(StepName("analyze"), 5)>> \o extract \o enrich
       \o <<JobStep(StepName("epub"), 80), JobStep(StepName("validate"), 95),
            JobStep(StepName("completed"), 100)>> :
        extract \in {<<JobStep(StepName("extract"), 20)>>}
                      \cup {ChunkSteps(n) : n \in 2..MaxChunks},
        enrich \in IF ocr_enabled
                   THEN {<< >>, <<JobStep(StepName("ocr_llm"), 55)>>}
                   ELSE {<< >>}}

\* C23: the step log only ever grows, and when the only run of a job
\* completes, the log holds its checkpoints in order: analyze (5), extract
\* (20) or the chunk entries, the enrichment step (55), generation (80),
\* validation (95), completion (100), one entry each.
C23_CheckpointOrder ==
    [][\A r \in RunIds :
         /\ IsPrefix(JobOf(r).steps, jobs'[runs[r].conversion_id].steps)
         /\ (Complete(r) /\ Len(runs) = 1)
              => jobs'[runs[r].conversion_id].steps
                   \in CheckpointLogs(JobOf(r).ocr_enabled)]_vars


=============================================================================
